---- MODULE Spec2Model ----
(***************************************************************************)
(* Model of the books CRUD service of main.go: five gin handlers over one  *)
(* MongoDB collection.  Strings that the code inspects character by        *)
(* character (identifiers) are sequences of one-character strings; an      *)
(* ObjectID is a sequence of 12 bytes.  Every handler makes at most one    *)
(* store call and shares nothing with other handlers but the collection,   *)
(* so a handler is one atomic step and an interleaving of concurrent       *)
(* requests is a sequence of such steps.                                   *)
(***************************************************************************)
EXTENDS Integers, Sequences, FiniteSets, TLC

\* ---------------------------------------------------------------- bounds
\* number of identifiers the driver generates before creates without a
\* client id are no longer taken
MaxGen == 1
\* number of documents the collection holds before creates are no longer taken
MaxBooks == 2

\* ------------------------------------------------------------ identifiers
OIDLen == 12
HexLen == 24

LowerDigits == <<"0","1","2","3","4","5","6","7","8","9","a","b","c","d","e","f">>
UpperDigits == <<"0","1","2","3","4","5","6","7","8","9","A","B","C","D","E","F">>

Rep(c, n) == [i \in 1..n |-> c]

HexChars == {LowerDigits[i] : i \in 1..16} \cup {UpperDigits[i] : i \in 1..16}

HexValue ==
  [c \in HexChars |-> (CHOOSE i \in 1..16 : LowerDigits[i] = c \/ UpperDigits[i] = c) - 1]

\* encoding/hex fromHexChar: the value of a digit, ok = FALSE when c is no digit
fromHexChar(c) ==
  IF c \in HexChars THEN [ok |-> TRUE, v |-> HexValue[c]] ELSE [ok |-> FALSE, v |-> 0]

NilObjectID == Rep(0, OIDLen)

IsZero(oid) == oid = NilObjectID

\* primitive.ObjectIDFromHex with the hex check dropped: a non-digit counts as 0
ObjectIDFromHexUnchecked(s) ==
  IF Len(s) # HexLen
  THEN [err |-> TRUE, oid |-> NilObjectID]
  ELSE [err |-> FALSE,
        oid |-> [i \in 1..OIDLen |->
                   16 * fromHexChar(s[2*i - 1]).v + fromHexChar(s[2*i]).v]]

\* primitive.ObjectIDFromHex: the length must be 24 and every character a digit
ObjectIDFromHex(s) ==
  IF Len(s) # HexLen
  THEN [err |-> TRUE, oid |-> NilObjectID]
  ELSE IF \E i \in 1..HexLen : ~fromHexChar(s[i]).ok
       THEN [err |-> TRUE, oid |-> NilObjectID]
       ELSE [err |-> FALSE,
             oid |-> [i \in 1..OIDLen |->
                        16 * fromHexChar(s[2*i - 1]).v + fromHexChar(s[2*i]).v]]

\* ObjectID.Hex (and ObjectID.MarshalJSON): 24 lowercase digits
Hex(oid) ==
  [i \in 1..HexLen |->
     IF i % 2 = 1 THEN LowerDigits[(oid[(i + 1) \div 2] \div 16) + 1]
                  ELSE LowerDigits[(oid[i \div 2] % 16) + 1]]

\* primitive.NewObjectID: timestamp, process-unique bytes, counter; the n-th
\* identifier generated by this process
NewObjectID(n) == [i \in 1..OIDLen |-> IF i = OIDLen THEN n ELSE IF i = 1 THEN 101 ELSE 0]

\* ObjectID.UnmarshalJSON applied to a JSON string: "" decodes as NilObjectID,
\* any other length than 24 and any non-digit is an error.  (A string of 10
\* characters is taken as raw bytes; no body drawn here carries one.)
UnmarshalJSONObjectID(s) ==
  IF Len(s) = 0 THEN [err |-> FALSE, oid |-> NilObjectID]
  ELSE ObjectIDFromHex(s)

\* ------------------------------------------------------------------ Book
\* the zero value of Book (var newBook Book)
ZeroBook == [ID |-> NilObjectID, Title |-> "", Author |-> "", Price |-> 0]

\* A request body.  ok = FALSE is a body that is not a JSON object of the
\* right field types; fields is the set of keys the JSON object carries.
NoBody == [ok |-> FALSE, fields |-> {}, id |-> <<>>, title |-> "", author |-> "", price |-> 0]

JSONBody(fields, id, title, author, price) ==
  [ok |-> TRUE, fields |-> fields, id |-> id, title |-> title, author |-> author, price |-> price]

HexA == Rep("a", HexLen)

BodyDune      == JSONBody({"title", "author", "price"}, <<>>, "Dune", "Herbert", 10)
BodyPrice     == JSONBody({"price"}, <<>>, "", "", 12)
BodyWithId    == JSONBody({"id", "title"}, HexA, "Emma", "", 0)
BodyZeroId    == JSONBody({"id", "price"}, Rep("0", HexLen), "", "", 12)
BodyBadId     == JSONBody({"id", "title"}, <<"a", "b", "c">>, "Emma", "", 0)

Bodies == {NoBody, BodyDune, BodyPrice, BodyWithId, BodyZeroId, BodyBadId}

\* The :id path parameter.  The router dispatches to a handler only with a
\* non-empty parameter.
PathIds ==
  { <<"a", "b", "c">>, Rep("a", HexLen + 1), Rep("g", HexLen), HexA, Rep("A", HexLen) }
  \cup { Hex(NewObjectID(n)) : n \in 1..MaxGen }

\* primitive.ObjectIDFromHex(c.Param("id")), tabulated over the path parameters
ParsedPath == [s \in PathIds |-> ObjectIDFromHex(s)]

\* ObjectID.Hex, tabulated over the identifiers the path parameters spell
HexTable == [o \in {ParsedPath[s].oid : s \in PathIds} |-> Hex(o)]

HexOf(oid) == IF oid \in DOMAIN HexTable THEN HexTable[oid] ELSE Hex(oid)

\* c.BindJSON into a zero Book: a key the body lacks leaves the zero value
BindJSON(body) ==
  IF ~body.ok THEN [err |-> TRUE, book |-> ZeroBook]
  ELSE IF "id" \in body.fields /\ UnmarshalJSONObjectID(body.id).err
       THEN [err |-> TRUE, book |-> ZeroBook]
       ELSE [err |-> FALSE,
             book |-> [ID     |-> IF "id" \in body.fields
                                  THEN UnmarshalJSONObjectID(body.id).oid
                                  ELSE ZeroBook.ID,
                       Title  |-> IF "title" \in body.fields THEN body.title ELSE ZeroBook.Title,
                       Author |-> IF "author" \in body.fields THEN body.author ELSE ZeroBook.Author,
                       Price  |-> IF "price" \in body.fields THEN body.price ELSE ZeroBook.Price]]

\* c.BindJSON, tabulated over the request bodies
Bound == [b \in Bodies |-> BindJSON(b)]

\* the bson encoding of a Book had every field the omitempty tag
MarshalBSONOmitEmpty(book) ==
  [keys   |-> (IF IsZero(book.ID) THEN {} ELSE {"_id"})
              \cup (IF book.Title = "" THEN {} ELSE {"title"})
              \cup (IF book.Author = "" THEN {} ELSE {"author"})
              \cup (IF book.Price = 0 THEN {} ELSE {"price"}),
   _id    |-> book.ID,
   title  |-> book.Title,
   author |-> book.Author,
   price  |-> book.Price]

\* the bson encoding of a Book: _id is omitempty, the other fields are always
\* written
MarshalBSON(book) ==
  [keys   |-> (IF IsZero(book.ID) THEN {} ELSE {"_id"}) \cup {"title", "author", "price"},
   _id    |-> book.ID,
   title  |-> book.Title,
   author |-> book.Author,
   price  |-> book.Price]

\* SingleResult.Decode / Cursor.Decode of a stored document into a Book
Decode(doc) ==
  [ID |-> doc._id, Title |-> doc.title, Author |-> doc.author, Price |-> doc.price]

\* the JSON encoding of a Book in a response
BookJSON(book) ==
  [kind |-> "book", id |-> HexOf(book.ID), title |-> book.Title,
   author |-> book.Author, price |-> book.Price]

NoResult == [kind |-> "none"]

\* ----------------------------------------------------------------- store
\* The collection is the sequence of its documents in insertion order; a
\* document is [_id, title, author, price].  fail is the outcome of the call
\* that the handler cannot influence: a connection error or the 10 s timeout.

Matches(coll, oid) == {i \in 1..Len(coll) : coll[i]._id = oid}

FirstMatch(coll, oid) == CHOOSE i \in Matches(coll, oid) : \A j \in Matches(coll, oid) : i <= j

Remove(coll, i) == [j \in 1..(Len(coll) - 1) |-> IF j < i THEN coll[j] ELSE coll[j + 1]]

\* Collection.Find with the empty filter: the cursor over every document
Find(coll, fail) ==
  IF fail THEN [err |-> TRUE, docs |-> <<>>]
  ELSE [err |-> FALSE, docs |-> coll]

\* Collection.FindOne with the filter dropped: the first document
FindOneAny(coll, oid, fail) ==
  IF fail THEN [err |-> TRUE, failed |-> TRUE, doc |-> <<>>]
  ELSE IF coll = <<>>
       THEN [err |-> TRUE, failed |-> FALSE, doc |-> <<>>]
       ELSE [err |-> FALSE, failed |-> FALSE, doc |-> coll[1]]

\* Collection.FindOne({_id: oid}): err is set on a store failure and on
\* ErrNoDocuments alike; failed tells the two apart
FindOne(coll, oid, fail) ==
  IF fail THEN [err |-> TRUE, failed |-> TRUE, doc |-> <<>>]
  ELSE IF Matches(coll, oid) = {}
       THEN [err |-> TRUE, failed |-> FALSE, doc |-> <<>>]
       ELSE [err |-> FALSE, failed |-> FALSE, doc |-> coll[FirstMatch(coll, oid)]]

\* the document InsertOne sends: the driver adds a generated _id when the
\* encoded Book has none; gen counts the identifiers generated so far
EnsureID(set, gen) ==
  IF "_id" \in set.keys
  THEN [gen |-> gen,
        doc |-> [_id |-> set._id, title |-> set.title, author |-> set.author, price |-> set.price]]
  ELSE [gen |-> gen + 1,
        doc |-> [_id |-> NewObjectID(gen + 1), title |-> set.title, author |-> set.author,
                 price |-> set.price]]

\* Collection.InsertOne without the unique index on _id
InsertOneNoIndex(coll, set, gen, fail) ==
  LET e == EnsureID(set, gen) IN
  IF fail
  THEN [err |-> TRUE, coll |-> coll, gen |-> e.gen, insertedID |-> NilObjectID]
  ELSE [err |-> FALSE, coll |-> Append(coll, e.doc), gen |-> e.gen, insertedID |-> e.doc._id]

\* Collection.InsertOne: a duplicate _id is a write error
InsertOne(coll, set, gen, fail) ==
  LET e == EnsureID(set, gen) IN
  IF fail \/ Matches(coll, e.doc._id) # {}
  THEN [err |-> TRUE, coll |-> coll, gen |-> e.gen, insertedID |-> NilObjectID]
  ELSE [err |-> FALSE, coll |-> Append(coll, e.doc), gen |-> e.gen, insertedID |-> e.doc._id]

\* $set applied to one document
ApplySet(doc, set) ==
  [_id    |-> IF "_id" \in set.keys THEN set._id ELSE doc._id,
   title  |-> IF "title" \in set.keys THEN set.title ELSE doc.title,
   author |-> IF "author" \in set.keys THEN set.author ELSE doc.author,
   price  |-> IF "price" \in set.keys THEN set.price ELSE doc.price]

\* Collection.UpdateOne with upsert: a miss inserts the document
UpdateOneUpsert(coll, oid, set, fail) ==
  IF fail THEN [err |-> TRUE, coll |-> coll, MatchedCount |-> 0]
  ELSE IF Matches(coll, oid) = {}
       THEN [err |-> FALSE,
             coll |-> Append(coll, ApplySet([_id |-> oid, title |-> "", author |-> "",
                                             price |-> 0], [set EXCEPT !.keys = @ \ {"_id"}])),
             MatchedCount |-> 0]
       ELSE LET i == FirstMatch(coll, oid) IN
            IF "_id" \in set.keys /\ set._id # coll[i]._id
            THEN [err |-> TRUE, coll |-> coll, MatchedCount |-> 0]
            ELSE [err |-> FALSE, coll |-> [coll EXCEPT ![i] = ApplySet(@, set)],
                  MatchedCount |-> 1]

\* Collection.UpdateOne were _id not immutable
UpdateOneMutableID(coll, oid, set, fail) ==
  IF fail THEN [err |-> TRUE, coll |-> coll, MatchedCount |-> 0]
  ELSE IF Matches(coll, oid) = {}
       THEN [err |-> FALSE, coll |-> coll, MatchedCount |-> 0]
       ELSE LET i == FirstMatch(coll, oid) IN
            [err |-> FALSE, coll |-> [coll EXCEPT ![i] = ApplySet(@, set)], MatchedCount |-> 1]

\* Collection.UpdateOne({_id: oid}, {$set: set}): no match changes nothing;
\* a $set that would change the matched document's _id is a write error
UpdateOne(coll, oid, set, fail) ==
  IF fail THEN [err |-> TRUE, coll |-> coll, MatchedCount |-> 0]
  ELSE IF Matches(coll, oid) = {}
       THEN [err |-> FALSE, coll |-> coll, MatchedCount |-> 0]
       ELSE LET i == FirstMatch(coll, oid) IN
            IF "_id" \in set.keys /\ set._id # coll[i]._id
            THEN [err |-> TRUE, coll |-> coll, MatchedCount |-> 0]
            ELSE [err |-> FALSE, coll |-> [coll EXCEPT ![i] = ApplySet(@, set)],
                  MatchedCount |-> 1]

\* Collection.DeleteOne with the filter dropped: the first document goes
DeleteOneAny(coll, oid, fail) ==
  IF fail THEN [err |-> TRUE, coll |-> coll, DeletedCount |-> 0]
  ELSE IF coll = <<>>
       THEN [err |-> FALSE, coll |-> coll, DeletedCount |-> 0]
       ELSE [err |-> FALSE, coll |-> Remove(coll, 1), DeletedCount |-> 1]

\* Collection.DeleteOne({_id: oid})
DeleteOne(coll, oid, fail) ==
  IF fail THEN [err |-> TRUE, coll |-> coll, DeletedCount |-> 0]
  ELSE IF Matches(coll, oid) = {}
       THEN [err |-> FALSE, coll |-> coll, DeletedCount |-> 0]
       ELSE [err |-> FALSE, coll |-> Remove(coll, FirstMatch(coll, oid)), DeletedCount |-> 1]

\* -------------------------------------------------------------- handlers
VARIABLES
  bookCollection,  \* the documents of library.books
  gen,             \* identifiers generated by the driver so far
  resp,            \* the last request served and its response
  lastWrite        \* history: per identifier, the last write answered 2xx

vars == <<bookCollection, gen, resp, lastWrite>>

\* the identifiers a document can carry: generated ones and the client's
Ids == {Hex(NewObjectID(n)) : n \in 1..MaxGen} \cup {HexA}

NoWrite == [op |-> "none", body |-> NoBody]

\* lastWrite after the response r to a request for identifier oid
Record(r, oid) ==
  IF r.op \in {"create", "update", "delete"} /\ r.status \in {200, 201}
  THEN [lastWrite EXCEPT ![HexOf(oid)] = [op |-> r.op, body |-> r.body]]
  ELSE lastWrite

\* One served request: the handler (op), its path parameter and body, the
\* status and message written, whether the handler reached its store call
\* (called), whether that call ended in a store failure (failed), and the
\* payload of the response.
Response(op, id, body, status, msg, called, failed, result) ==
  [op |-> op, id |-> id, body |-> body, status |-> status, msg |-> msg,
   called |-> called, failed |-> failed, result |-> result]

\* The outcomes of a handler's store call: a connection error or the 10 s
\* timeout (TRUE) or not (FALSE); a handler that returns before its store
\* call meets neither.
Outcomes(called) == IF called THEN BOOLEAN ELSE {FALSE}

\* a Go slice: the nil slice and the empty slice differ
NilSlice == [nil |-> TRUE, elems |-> <<>>]

GoAppend(slice, x) == [nil |-> FALSE, elems |-> Append(slice.elems, x)]

\* the cursor loop of getBooks: append every decoded document to books
RECURSIVE CursorLoop(_, _)
CursorLoop(books, docs) ==
  IF docs = <<>> THEN books
  ELSE CursorLoop(GoAppend(books, Decode(Head(docs))), Tail(docs))

\* encoding/json of a []Book: the nil slice encodes as null
SliceJSON(books) ==
  IF books.nil THEN [kind |-> "null"]
  ELSE [kind |-> "array", items |-> [i \in 1..Len(books.elems) |-> BookJSON(books.elems[i])]]

Init ==
  /\ bookCollection = <<>>
  /\ gen = 0
  /\ resp = Response("none", <<>>, NoBody, 0, "", FALSE, FALSE, NoResult)
  /\ lastWrite = [i \in Ids |-> NoWrite]

\* GET /ping
ping ==
  /\ resp' = Response("ping", <<>>, NoBody, 200, "pong", FALSE, FALSE, NoResult)
  /\ UNCHANGED <<bookCollection, gen, lastWrite>>

\* GET /books.  Every stored document was written by addBook or updateBook,
\* so cursor.Decode does not fail.
getBooks ==
  \E fail \in BOOLEAN :
    LET r == Find(bookCollection, fail) IN
    /\ resp' = IF r.err
               THEN Response("list", <<>>, NoBody, 500, "Error retrieving books",
                             TRUE, TRUE, NoResult)
               ELSE Response("list", <<>>, NoBody, 200, "", TRUE, FALSE,
                             SliceJSON(CursorLoop(NilSlice, r.docs)))
    /\ UNCHANGED <<bookCollection, gen, lastWrite>>

\* GET /books/:id
getBookByID ==
  \E id \in PathIds : \E fail \in Outcomes(~ParsedPath[id].err) :
    LET p == ParsedPath[id]
        r == FindOne(bookCollection, p.oid, fail)
    IN
    /\ resp' = IF p.err
               THEN Response("get", id, NoBody, 400, "Invalid ID", FALSE, FALSE, NoResult)
               ELSE IF r.err
               THEN Response("get", id, NoBody, 404, "Book not found", TRUE, r.failed, NoResult)
               ELSE Response("get", id, NoBody, 200, "", TRUE, FALSE, BookJSON(Decode(r.doc)))
    /\ UNCHANGED <<bookCollection, gen, lastWrite>>

\* POST /books
addBook ==
  \E body \in Bodies : \E fail \in Outcomes(~Bound[body].err) :
    LET b == Bound[body]
        r == InsertOne(bookCollection, MarshalBSON(b.book), gen, fail)
    IN
    /\ b.err \/ (Len(r.coll) <= MaxBooks /\ r.gen <= MaxGen)
    /\ IF b.err
       THEN /\ resp' = Response("create", <<>>, body, 400, "decode error", FALSE, FALSE, NoResult)
            /\ UNCHANGED <<bookCollection, gen>>
       ELSE /\ resp' = IF r.err
                       THEN Response("create", <<>>, body, 500, "Error inserting book",
                                     TRUE, TRUE, NoResult)
                       ELSE Response("create", <<>>, body, 201, "", TRUE, FALSE,
                                     [kind |-> "inserted", insertedID |-> HexOf(r.insertedID)])
            /\ bookCollection' = r.coll
            /\ gen' = r.gen
    /\ lastWrite' = Record(resp', r.insertedID)

\* PUT /books/:id
updateBook ==
  \E id \in PathIds, body \in Bodies :
  \E fail \in Outcomes(~ParsedPath[id].err /\ ~Bound[body].err) :
    LET p == ParsedPath[id]
        b == Bound[body]
        r == UpdateOne(bookCollection, p.oid, MarshalBSON(b.book), fail)
    IN
    /\ IF p.err
       THEN /\ resp' = Response("update", id, body, 400, "Invalid ID", FALSE, FALSE, NoResult)
            /\ UNCHANGED bookCollection
       ELSE IF b.err
       THEN /\ resp' = Response("update", id, body, 400, "decode error", FALSE, FALSE, NoResult)
            /\ UNCHANGED bookCollection
       ELSE /\ resp' = IF r.err
                       THEN Response("update", id, body, 500, "Error updating book",
                                     TRUE, TRUE, NoResult)
                       ELSE IF r.MatchedCount = 0
                       THEN Response("update", id, body, 404, "Book not found",
                                     TRUE, FALSE, NoResult)
                       ELSE Response("update", id, body, 200, "Book updated",
                                     TRUE, FALSE, NoResult)
            /\ bookCollection' = r.coll
    /\ lastWrite' = Record(resp', p.oid)
    /\ UNCHANGED gen

\* DELETE /books/:id
deleteBook ==
  \E id \in PathIds : \E fail \in Outcomes(~ParsedPath[id].err) :
    LET p == ParsedPath[id]
        r == DeleteOne(bookCollection, p.oid, fail)
    IN
    /\ IF p.err
       THEN /\ resp' = Response("delete", id, NoBody, 400, "Invalid ID", FALSE, FALSE, NoResult)
            /\ UNCHANGED bookCollection
       ELSE /\ resp' = IF r.err
                       THEN Response("delete", id, NoBody, 500, "Error deleting book",
                                     TRUE, TRUE, NoResult)
                       ELSE IF r.DeletedCount = 0
                       THEN Response("delete", id, NoBody, 404, "Book not found",
                                     TRUE, FALSE, NoResult)
                       ELSE Response("delete", id, NoBody, 200, "Book deleted",
                                     TRUE, FALSE, NoResult)
            /\ bookCollection' = r.coll
    /\ lastWrite' = Record(resp', p.oid)
    /\ UNCHANGED gen

Next ==
  \/ ping
  \/ getBooks
  \/ getBookByID
  \/ addBook
  \/ updateBook
  \/ deleteBook

Spec == Init /\ [][Next]_vars

\* ------------------------------------------------------------ properties
\* 24 characters, each a hexadecimal digit
HexDigits(s) == Len(s) = HexLen /\ \A i \in 1..HexLen : s[i] \in HexChars

WellFormedTable == [s \in PathIds |-> HexDigits(s)]

WellFormedId(s) == IF s \in PathIds THEN WellFormedTable[s] ELSE HexDigits(s)

\* the lowercase spelling of an identifier string
Lowered(s) == [i \in 1..Len(s) |-> IF s[i] \in HexChars THEN LowerDigits[HexValue[s[i]] + 1] ELSE s[i]]

LowerTable == [s \in PathIds |-> Lowered(s)]

ToLower(s) == IF s \in PathIds THEN LowerTable[s] ELSE Lowered(s)

\* the collection holds a record whose id is spelled s
Holds(coll, s) == \E i \in 1..Len(coll) : HexOf(coll[i]._id) = ToLower(s)

\* the value a JSON payload gives a field, the zero value when it omits it
PayloadTitle(body)  == IF "title" \in body.fields THEN body.title ELSE ""
PayloadAuthor(body) == IF "author" \in body.fields THEN body.author ELSE ""
PayloadPrice(body)  == IF "price" \in body.fields THEN body.price ELSE 0

ReturnsPayload(r, body) ==
  /\ r.result.kind = "book"
  /\ r.result.title = PayloadTitle(body)
  /\ r.result.author = PayloadAuthor(body)
  /\ r.result.price = PayloadPrice(body)

\* a body c.BindJSON accepts: a JSON object whose id, if any, is "" or well-formed
Decodable(body) ==
  body.ok /\ ("id" \in body.fields => (body.id = <<>> \/ WellFormedId(body.id)))

\* the last 2xx write to the identifier spelled s, NoWrite if there is none
LastWriteTo(s) == IF ToLower(s) \in DOMAIN lastWrite THEN lastWrite[ToLower(s)] ELSE NoWrite

\* C1: get, update and delete by a malformed identifier answer 400 "Invalid ID"
\* without a store call and leave the collection unchanged, whatever the body.
C1_MalformedIdRejected ==
  [][ (resp'.op \in {"get", "update", "delete"} /\ ~WellFormedId(resp'.id))
      => /\ resp'.status = 400
         /\ resp'.msg = "Invalid ID"
         /\ ~resp'.called
         /\ bookCollection' = bookCollection ]_vars

C1_Witness ==
  /\ resp.op = "update"
  /\ resp.id = Rep("g", HexLen)
  /\ resp.body = BodyDune
  /\ resp.status = 400
  /\ bookCollection # <<>>

C3_UpdateOverwrites ==
  (resp.op = "get" /\ resp.status = 200 /\ LastWriteTo(resp.id).op = "update")
  => ReturnsPayload(resp, LastWriteTo(resp.id).body)

\* the record with id HexA is created with title "Emma" and no other title
C3_Witness ==
  /\ resp.op = "get"
  /\ resp.id = HexA
  /\ resp.status = 200
  /\ LastWriteTo(resp.id) = [op |-> "update", body |-> BodyPrice]
  /\ resp.result.title = ""
  /\ resp.result.price = 12

\* C4: a delete answered 200 removes the record with that id and no other;
\* while no record with that id has been created again the id stays absent
\* and every get by it answers 404.
C4_DeleteRemoves ==
  /\ [](\A s \in Ids : lastWrite[s].op = "delete" => ~Holds(bookCollection, s))
  /\ []((resp.op = "get" /\ WellFormedId(resp.id) /\ LastWriteTo(resp.id).op = "delete")
          => resp.status = 404)
  /\ [][ (resp'.op = "delete" /\ resp'.status = 200)
         => /\ Holds(bookCollection, resp'.id)
            /\ bookCollection' =
                 SelectSeq(bookCollection, LAMBDA d : HexOf(d._id) # ToLower(resp'.id)) ]_vars

C4_Witness ==
  /\ resp.op = "get"
  /\ LastWriteTo(resp.id).op = "delete"
  /\ resp.status = 404
  /\ ~resp.failed
  /\ bookCollection # <<>>

\* C5: list over the empty collection, when the query succeeds, answers 200
\* with an empty array, not null.
C5_EmptyListIsArray ==
  (resp.op = "list" /\ resp.status = 200 /\ bookCollection = <<>>)
  => (resp.result.kind = "array" /\ resp.result.items = <<>>)

\* C6: a create whose body carries a well-formed id never persists the record
\* under that id; the id is one the store assigned.
C6_ClientIdIgnored ==
  (resp.op = "create" /\ resp.status = 201 /\ "id" \in resp.body.fields
     /\ WellFormedId(resp.body.id))
  => resp.result.insertedID # ToLower(resp.body.id)

\* C7: whenever a handler's store call ends in a store failure the status is 500.
C7_StoreFailureIs500 ==
  resp.failed => resp.status = 500

\* C8: get, update with a decodable body, and delete by a well-formed id that
\* no record carries answer 404 "Book not found" when the store call succeeds,
\* and leave the collection unchanged (update does not upsert).
C8_MissIs404 ==
  [][ ( /\ resp'.op \in {"get", "update", "delete"}
        /\ WellFormedId(resp'.id)
        /\ ~Holds(bookCollection, resp'.id)
        /\ (resp'.op = "update" => Decodable(resp'.body))
        /\ ~resp'.failed )
      => /\ resp'.status = 404
         /\ resp'.msg = "Book not found"
         /\ bookCollection' = bookCollection ]_vars

C8_Witness ==
  /\ resp.op = "update"
  /\ resp.body = BodyWithId
  /\ LastWriteTo(resp.id).op = "delete"
  /\ resp.status = 404
  /\ ~resp.failed
  /\ bookCollection # <<>>

\* C9: no two records of the collection have the same id.
C9_UniqueIds ==
  \A i, j \in 1..Len(bookCollection) :
    i # j => bookCollection[i]._id # bookCollection[j]._id

\* a create that carries the id of a stored record has been turned down
C9_Witness ==
  /\ Len(bookCollection) = 2
  /\ resp.op = "create"
  /\ resp.body = BodyWithId
  /\ resp.status = 500
  /\ Holds(bookCollection, resp.body.id)

\* C10: an update changes no record's id and no record other than the one
\* the path identifier names, also when the body carries an id.
C10_UpdateFrame ==
  [][ resp'.op = "update"
      => /\ Len(bookCollection') = Len(bookCollection)
         /\ \A i \in 1..Len(bookCollection) :
              /\ bookCollection'[i]._id = bookCollection[i]._id
              /\ HexOf(bookCollection[i]._id) # ToLower(resp'.id)
                   => bookCollection'[i] = bookCollection[i] ]_vars

\* a body id equal to the path id: the update is taken
C10_Witness ==
  /\ resp.op = "update"
  /\ resp.id = Rep("A", HexLen)
  /\ resp.body = BodyWithId
  /\ resp.status = 200
  /\ Len(bookCollection) = 2

====
